---- MODULE Spec2Model ----
(***************************************************************************)
(* Model of video_downloader_qt.py: the download queue of VideoDownloaderUI *)
(* (one coordinating GUI thread), the DownloadRunnable workers of the       *)
(* thread pool and the queued signals between them.                         *)
(*                                                                          *)
(* Texts are modelled as sequences of tokens (a URL) or as an identity plus *)
(* the set of substrings the code tests for (an error text).  Russian       *)
(* literals of the source are written in English.                           *)
(***************************************************************************)
EXTENDS Integers, Sequences, FiniteSets, TLC

\* ------------------------------------------------------------------ bounds
\* the number of jobs ever accepted by add_to_queue
MaxJobs == 3
\* the number of progress callbacks that return to the engine during one run
MaxHooks == 1
MaxStageHooks == 3
MaxProbes == 2
MaxSelectorJobs == 1
MaxFormats == 3
\* the number of pieces one error text of the engine is put together from
MaxPieces == 2

NoneVal == "None"
\* current_download when it is None (runnables are numbered from 1)
NoDownload == 0

\* ------------------------------------------------------- texts and tokens
\* A URL is a sequence of tokens; Space is the only whitespace token.
Space == " "
Schemes == {"http://", "https://"}
WordId11 == {"ID11"}
WordId32 == {"ID32"}
VideoIds == {"NUM_NUM", "-NUM_NUM"}
Numbers == {"NUM"}
WordPaths == {"WPATH/"}

\* the needles of the substring tests of the source, per token
Substrings(tok) ==
    CASE tok = "youtube.com" -> {"youtube.com", "youtube"}
      [] tok = "youtu.be" -> {"youtu.be"}
      [] tok = "vk.com" -> {"vk.com", "vk"}
      [] tok = "vkvideo.ru" -> {"vkvideo.ru", "vk"}
      [] tok = "rutube.ru" -> {"rutube.ru", "rutube"}
      [] tok = "ok.ru" -> {"ok.ru"}
      [] tok = "my.mail.ru" -> {"mail.ru"}
      [] tok = "ref=youtube.com" -> {"youtube.com", "youtube"}
      [] tok = "book.ru" -> {"ok.ru"}
      [] OTHER -> {}

\* needle in url
Contains(url, needle) == \E i \in 1..Len(url) : needle \in Substrings(url[i])

RECURSIVE lstrip(_)
lstrip(s) == IF s # <<>> /\ Head(s) = Space THEN lstrip(Tail(s)) ELSE s

RECURSIVE rstrip(_)
rstrip(s) ==
    IF s # <<>> /\ s[Len(s)] = Space THEN rstrip(SubSeq(s, 1, Len(s) - 1)) ELSE s

\* a strip that removes nothing
strip_Nothing(s) == s

\* str.strip()
strip(s) == rstrip(lstrip(s))

\* a startswith that takes any scheme
startswith_AnyScheme(url) == url # <<>> /\ url[1] \in Schemes \cup {"ftp://"}

\* url.startswith(('http://', 'https://'))
startswith_http(url) == url # <<>> /\ url[1] \in Schemes

get_service_name(url) ==
    IF Contains(url, "youtube.com") \/ Contains(url, "youtu.be") THEN "YouTube"
    ELSE IF Contains(url, "vk.com") \/ Contains(url, "vkvideo.ru") THEN "VK"
    ELSE IF Contains(url, "rutube.ru") THEN "RuTube"
    ELSE IF Contains(url, "ok.ru") THEN "Odnoklassniki"
    ELSE IF Contains(url, "mail.ru") THEN "Mail.ru"
    ELSE "Unknown service"

\* Pattern elements: one token of a set, an optional token of a set, and the
\* optional tail (?:<lead>\S*)?$ of every pattern.
One(toks) == [kind |-> "one", toks |-> toks]
Opt(toks) == [kind |-> "opt", toks |-> toks]
QueryTail(lead) == [kind |-> "tail", toks |-> {lead}]
Www == Opt({"www."})

ServiceOrder == <<"YouTube", "VK", "RuTube", "Odnoklassniki", "Mail.ru">>

URL_PATTERNS ==
    [s \in {ServiceOrder[i] : i \in 1..Len(ServiceOrder)} |->
        CASE s = "YouTube" -> <<
                <<One(Schemes), Www, One({"youtube.com"}), One({"/watch?v="}),
                  One(WordId11), QueryTail("&")>>,
                <<One(Schemes), One({"youtu.be"}), One({"/"}), One(WordId11),
                  QueryTail("?")>>,
                <<One(Schemes), Www, One({"youtube.com"}), One({"/shorts/"}),
                  One(WordId11), QueryTail("?")>>,
                <<One(Schemes), Www, One({"youtube.com"}), One({"/embed/"}),
                  One(WordId11), QueryTail("?")>> >>
          [] s = "VK" -> <<
                <<One(Schemes), Www, One({"vk.com"}), One({"/video"}),
                  One(VideoIds), QueryTail("?")>>,
                <<One(Schemes), Www, One({"vkvideo.ru"}), One({"/video"}),
                  One(VideoIds), QueryTail("?")>> >>
          [] s = "RuTube" -> <<
                <<One(Schemes), Www, One({"rutube.ru"}), One({"/video/"}),
                  One(WordId32), Opt({"/"}), QueryTail("?")>>,
                <<One(Schemes), Www, One({"rutube.ru"}), One({"/play/embed/"}),
                  One(WordId32), Opt({"/"}), QueryTail("?")>> >>
          [] s = "Odnoklassniki" -> <<
                <<One(Schemes), Www, One({"ok.ru"}), One({"/video/"}),
                  One(Numbers), QueryTail("?")>> >>
          [] s = "Mail.ru" -> <<
                <<One(Schemes), Www, One({"my.mail.ru"}), One({"/"}),
                  Opt(WordPaths), One({"video/"}), One(WordPaths),
                  One({"NUM.html"}), QueryTail("?")>> >>]

\* re.match(pattern, url) from element i of the pattern and token j of the url
RECURSIVE re_match_from(_, _, _, _)
re_match_from(pat, i, url, j) ==
    IF i > Len(pat) THEN j > Len(url)
    ELSE LET e == pat[i] IN
         CASE e.kind = "one" ->
                /\ j <= Len(url)
                /\ url[j] \in e.toks
                /\ re_match_from(pat, i + 1, url, j + 1)
           [] e.kind = "opt" ->
                \/ re_match_from(pat, i + 1, url, j)
                \/ /\ j <= Len(url)
                   /\ url[j] \in e.toks
                   /\ re_match_from(pat, i + 1, url, j + 1)
           [] OTHER ->
                \/ j > Len(url)
                \/ /\ url[j] \in e.toks
                   /\ \A k \in (j + 1)..Len(url) : url[k] # Space

re_match(pat, url) == re_match_from(pat, 1, url, 1)

\* the service whose pattern matches url, in table order, or NoneVal
MatchingServices(url) ==
    {i \in 1..Len(ServiceOrder) :
        \E k \in 1..Len(URL_PATTERNS[ServiceOrder[i]]) :
            re_match(URL_PATTERNS[ServiceOrder[i]][k], url)}

\* service_name.lower() in url.lower(), for the keys of URL_PATTERNS
NamedServices(url) ==
    {i \in 1..Len(ServiceOrder) :
        CASE ServiceOrder[i] = "YouTube" -> Contains(url, "youtube")
          [] ServiceOrder[i] = "VK" -> Contains(url, "vk")
          [] ServiceOrder[i] = "RuTube" -> Contains(url, "rutube")
          [] ServiceOrder[i] = "Mail.ru" -> Contains(url, "mail.ru")
          [] OTHER -> FALSE}

MinOf(S) == CHOOSE x \in S : \A y \in S : x <= y

is_valid_video_url(url) ==
    IF url = <<>> THEN [ok |-> FALSE, error |-> "EmptyInput", service |-> NoneVal]
    ELSE IF ~startswith_http(url)
    THEN [ok |-> FALSE, error |-> "UnsupportedScheme", service |-> NoneVal]
    ELSE IF MatchingServices(url) # {}
    THEN [ok |-> TRUE, error |-> "",
          service |-> ServiceOrder[MinOf(MatchingServices(url))]]
    ELSE IF NamedServices(url) # {}
    THEN [ok |-> FALSE, error |-> "MalformedForService",
          service |-> ServiceOrder[MinOf(NamedServices(url))]]
    ELSE [ok |-> FALSE, error |-> "UnsupportedService", service |-> NoneVal]

\* ------------------------------------------------------------ error texts
\* An error text is its identity and the substrings of it the code tests for.
ErrorText(text, has) == [text |-> text, has |-> has]

\* raise Exception("download cancelled by user") in progress_hook
CancelledByUserError == ErrorText("download cancelled by user", {})
\* raise Exception("no resolution given for video") in download_video
NoResolutionError == ErrorText("no resolution given for video", {})

Message(cat, raw) == [cat |-> cat, raw |-> raw]
MsgDownloadFinished == Message("download finished", "")
MsgDownloadCancelled == Message("download cancelled", "")

\* str.lower() of the substrings an error text is looked through for
lower(s) ==
    CASE s = "HTTP Error 404" -> "http error 404"
      [] s = "HTTP Error 403" -> "http error 403"
      [] s = "Sign in to confirm your age" -> "sign in to confirm your age"
      [] s = "SSL" -> "ssl"
      [] s = "Podklyucheni" -> "podklyucheni"
      [] s = "Connect" -> "connect"
      [] s = "Copyright" -> "copyright"
      [] OTHER -> s

\* sub in error
InError(error, sub) == sub \in error.has

\* sub in error.lower()
InLowerError(error, sub) == \E f \in error.has : lower(f) = sub

\* a classification that tests for "HTTP Error 403" first
get_user_friendly_error_message_403First(error) ==
    IF InError(error, "HTTP Error 403") THEN Message("Forbidden", "")
    ELSE IF InError(error, "HTTP Error 404") THEN Message("NotFound", "")
    ELSE IF InError(error, "Sign in to confirm your age")
            \/ InError(error, "age-restricted")
    THEN Message("AgeRestricted", "")
    ELSE IF InError(error, "SSL") \/ InLowerError(error, "podklyucheni")
            \/ InLowerError(error, "connect")
    THEN Message("ConnectivityError", "")
    ELSE IF InLowerError(error, "copyright")
            \/ InError(error, "copyright infringement")
    THEN Message("CopyrightBlocked", "")
    ELSE Message("Generic", error.text)

\* get_user_friendly_error_message; the last branch returns the fixed prefix
\* followed by the error text
get_user_friendly_error_message(error) ==
    IF InError(error, "HTTP Error 404") THEN Message("NotFound", "")
    ELSE IF InError(error, "HTTP Error 403") THEN Message("Forbidden", "")
    ELSE IF InError(error, "Sign in to confirm your age")
            \/ InError(error, "age-restricted")
    THEN Message("AgeRestricted", "")
    ELSE IF InError(error, "SSL") \/ InLowerError(error, "podklyucheni")
            \/ InLowerError(error, "connect")
    THEN Message("ConnectivityError", "")
    ELSE IF InLowerError(error, "copyright")
            \/ InError(error, "copyright infringement")
    THEN Message("CopyrightBlocked", "")
    ELSE Message("Generic", error.text)

\* ------------------------------------------------------------------ inputs
UrlYouTube == <<"https://", "www.", "youtube.com", "/watch?v=", "ID11">>
UrlOk == <<"https://", "ok.ru", "/video/", "NUM">>
UrlShortId == <<"https://", "youtube.com", "/watch?v=", "ID10">>
UrlBlank == <<Space, Space>>
UrlFtp == <<"ftp://", "youtube.com", "/watch?v=", "ID11">>
UrlUnsupported == <<"https://", "example.com", "/clip">>

\* what add_to_queue reads from the widgets: the text of url_input, whether
\* video_radio is checked, the current text of resolution_combo
AddInputs ==
    { <<<<Space>> \o UrlYouTube, TRUE, "720p">>,
      <<UrlOk, FALSE, "720p">>,
      <<UrlOk, TRUE, "">>,
      <<UrlShortId, TRUE, "720p">>,
      <<UrlBlank, TRUE, "720p">>,
      <<UrlFtp, FALSE, "720p">>,
      <<UrlUnsupported, TRUE, "720p">> }

\* the dictionaries the engine passes to progress_hook
HookInputs ==
    { [status |-> "downloading", downloaded_bytes |-> 1, total_bytes |-> 2,
       total_bytes_estimate |-> 0, filename |-> ""],
      [status |-> "downloading", downloaded_bytes |-> 1, total_bytes |-> 0,
       total_bytes_estimate |-> 0, filename |-> ""],
      [status |-> "finished", downloaded_bytes |-> 2, total_bytes |-> 2,
       total_bytes_estimate |-> 0, filename |-> "file.mp4"] }

\* the dictionaries of a download in several stages (the video stream, then
\* the audio stream): byte counts with the total known, only estimated (the
\* estimate can be below what is downloaded) or unknown, and the end of a stage
StageInputs ==
    HookInputs \cup
    { [status |-> "downloading", downloaded_bytes |-> 2, total_bytes |-> 2,
       total_bytes_estimate |-> 0, filename |-> ""],
      [status |-> "downloading", downloaded_bytes |-> 1, total_bytes |-> 0,
       total_bytes_estimate |-> 2, filename |-> ""],
      [status |-> "downloading", downloaded_bytes |-> 3, total_bytes |-> 0,
       total_bytes_estimate |-> 2, filename |-> ""] }

\* the texts of the exceptions the engine raises by itself
EngineErrors == { ErrorText("HTTP Error 404: Not Found", {"HTTP Error 404"}),
                  ErrorText("unable to extract", {}) }

\* the pieces an error text of the engine is put together from: the
\* substrings get_user_friendly_error_message looks for and spellings of them
\* in another case
ErrorPieces ==
    <<"HTTP Error 404", "HTTP Error 403", "Sign in to confirm your age",
      "age-restricted", "SSL", "ssl", "Podklyucheni", "Connect", "connect",
      "Copyright", "copyright", "copyright infringement">>

\* the pieces of ps from the i-th on, in the order of ErrorPieces, as text
RECURSIVE TextOf(_, _)
TextOf(ps, i) ==
    IF i > Len(ErrorPieces) THEN ""
    ELSE (IF ErrorPieces[i] \in ps THEN " " \o ErrorPieces[i] ELSE "")
         \o TextOf(ps, i + 1)

\* str(e) of an exception of the engine whose text holds the pieces ps
EngineError(ps) ==
    ErrorText("ERROR:" \o TextOf(ps, 1),
              ps \cup (IF "copyright infringement" \in ps
                       THEN {"copyright"} ELSE {}))

\* every error text put together from at most MaxPieces pieces
ErrorTexts ==
    {EngineError(ps) :
        ps \in {qs \in SUBSET {ErrorPieces[i] : i \in DOMAIN ErrorPieces} :
                   Cardinality(qs) <= MaxPieces}}

\* ------------------------------------------------------------------- state
VARIABLES
    download_queue,         \* VideoDownloaderUI.download_queue
    current_download,       \* VideoDownloaderUI.current_download: a runnable or None
    successful_downloads,   \* VideoDownloaderUI.successful_downloads
    failed_downloads,       \* VideoDownloaderUI.failed_downloads
    controls_enabled,       \* what set_controls_enabled last set
    pool,                   \* the DownloadRunnable objects given to thread_pool
                            \* whose finished signal has not been handled yet
    events,                 \* queued signal deliveries to the GUI thread
    summary_open,           \* the message box of show_download_summary is open
    next_id,                \* identity of the next queue entry (dict object)
    url_input,              \* the text of the QLineEdit url_input
    video_radio,            \* video_radio.isChecked()
    resolution_combo,       \* the items, current index and enabled flag of
                            \* the QComboBox resolution_combo
    resolution_workers,     \* the ResolutionWorker threads created so far, in
                            \* order; the last one is self.resolution_worker
    pending_probe,          \* the url of an update_resolutions that is inside
                            \* QApplication.processEvents(), or None
    classified              \* what add_to_queue last computed from the text of
                            \* url_input: the stripped url, the tuple of
                            \* is_valid_video_url and the name of
                            \* get_service_name

\* the resolution selector and its workers
selector == <<url_input, video_radio, resolution_combo, resolution_workers,
              pending_probe, classified>>

vars == <<download_queue, current_download, successful_downloads, failed_downloads,
          controls_enabled, pool, events, summary_open, next_id, url_input,
          video_radio, resolution_combo, resolution_workers, pending_probe,
          classified>>

\* load_settings when there is no settings.json; self.settings is not
\* written after __init__
settings == [download_mode |-> "video", last_resolution |-> "720p"]

\* a QComboBox: index is -1 when there is no item
ComboBox(items, index, enabled) ==
    [items |-> items, index |-> index, enabled |-> enabled]

\* QComboBox.currentText()
currentText(combo) ==
    IF combo.items = <<>> THEN "" ELSE combo.items[combo.index + 1]

\* the item update_resolutions shows while a worker runs
FetchingResolutions == "fetching resolutions..."

\* classified before the first submission
NotClassified ==
    [text |-> <<>>, url |-> <<>>, ok |-> FALSE, error |-> "none",
     service |-> NoneVal, name |-> NoneVal]

\* pending_probe when no update_resolutions is inside processEvents()
NoProbe == <<>>

\* progress values are kept in tenths of a percent
PercentScale == 10
Indeterminate == -1 * PercentScale

Init ==
    /\ download_queue = <<>>
    /\ current_download = NoDownload
    /\ successful_downloads = <<>>
    /\ failed_downloads = <<>>
    /\ controls_enabled = TRUE
    /\ pool = <<>>
    /\ events = <<>>
    /\ summary_open = FALSE
    /\ next_id = 1
    /\ url_input = <<>>
    /\ video_radio = (settings.download_mode # "audio")
    /\ resolution_combo = ComboBox(<<>>, -1, TRUE)
    /\ resolution_workers = <<>>
    /\ pending_probe = NoProbe
    /\ classified = NotClassified

\* ----------------------------------------------------------------- workers
\* a runnable whose cancel_event is set from the start
DownloadRunnable_FlagSet(download) ==
    [job |-> download.id, url |-> download.url, mode |-> download.mode,
     resolution |-> download.resolution, cancel_event |-> TRUE,
     downloaded_filename |-> NoneVal, hooks |-> 0, pc |-> "running",
     ended |-> ""]

\* DownloadRunnable.__init__; job is the identity of the queue entry the
\* runnable was created from, hooks counts the callbacks of its run, ended
\* tells how its run ended ("returned", "raised", "cancelled")
DownloadRunnable(download) ==
    [job |-> download.id, url |-> download.url, mode |-> download.mode,
     resolution |-> download.resolution, cancel_event |-> FALSE,
     downloaded_filename |-> NoneVal, hooks |-> 0, pc |-> "running",
     ended |-> ""]

Live(p) == DOMAIN p

ProgressSignal(r, percent) ==
    [sig |-> "progress", rid |-> r, success |-> FALSE, message |-> Message("", ""),
     filename |-> "", percent |-> percent, resolutions |-> <<>>]

FinishedSignal(r, success, message, filename) ==
    [sig |-> "finished", rid |-> r, success |-> success, message |-> message,
     filename |-> filename, percent |-> 0, resolutions |-> <<>>]

\* download_video raises before it calls the engine when resolution is empty
EngineCalled(run) == run.mode = "audio" \/ run.resolution \notin {"", NoneVal}

\* the return value of download_video / download_audio when no exception
\* leaves them
download_returns == TRUE

\* DownloadRunnable.run, from the point where download_video / download_audio
\* returns: the finished signal of a run that returned normally
run_returned(r, run) ==
    IF download_returns
    THEN FinishedSignal(r, TRUE, MsgDownloadFinished,
                        IF run.downloaded_filename = NoneVal THEN ""
                        ELSE run.downloaded_filename)
    ELSE FinishedSignal(r, FALSE, MsgDownloadCancelled, "")

\* DownloadRunnable.run, except branch: the finished signal of a run that an
\* exception with text error left
run_raised(r, error) ==
    FinishedSignal(r, FALSE, get_user_friendly_error_message(error), "")

\* (downloaded / total) * 100, in tenths
Percent(downloaded, total) == (downloaded * 100 * PercentScale) \div total

\* a progress_hook that reads total_bytes only
TotalOf_NoEstimate(d) == d.total_bytes

\* progress_hook: d.get('total_bytes', 0) or d.get('total_bytes_estimate', 0);
\* an unknown count is 0
TotalOf(d) == IF d.total_bytes # 0 THEN d.total_bytes ELSE d.total_bytes_estimate

\* progress_hook called by the engine with dictionary d
progress_hook(r, d) ==
    /\ r \in Live(pool)
    /\ pool[r].pc = "running"
    /\ EngineCalled(pool[r])
    /\ IF pool[r].cancel_event
       THEN \* the exception leaves ydl.download, download_* re-raises it
            /\ pool' = [pool EXCEPT ![r].pc = "done", ![r].ended = "cancelled"]
            /\ events' = Append(events, run_raised(r, CancelledByUserError))
       ELSE IF d.status = "downloading"
       THEN LET total == TotalOf(d)
            IN  /\ pool' = [pool EXCEPT ![r].hooks = @ + 1]
                /\ events' = Append(events,
                       IF total # 0
                       THEN ProgressSignal(r, Percent(d.downloaded_bytes, total))
                       ELSE ProgressSignal(r, Indeterminate))
       ELSE /\ pool' = [pool EXCEPT ![r].hooks = @ + 1,
                                    ![r].downloaded_filename = d.filename]
            /\ events' = Append(events, ProgressSignal(r, 100 * PercentScale))
    /\ UNCHANGED <<download_queue, current_download, successful_downloads,
                   failed_downloads, controls_enabled, summary_open, next_id>>
    /\ UNCHANGED selector

\* ydl.download returns: run emits finished(True, ...)
run_success(r) ==
    /\ r \in Live(pool)
    /\ pool[r].pc = "running"
    /\ EngineCalled(pool[r])
    /\ pool' = [pool EXCEPT ![r].pc = "done", ![r].ended = "returned"]
    /\ events' = Append(events, run_returned(r, pool[r]))
    /\ UNCHANGED <<download_queue, current_download, successful_downloads,
                   failed_downloads, controls_enabled, summary_open, next_id>>
    /\ UNCHANGED selector

\* a run whose except branch emits nothing
run_exception_Silent(r, error) ==
    /\ r \in Live(pool)
    /\ pool[r].pc = "running"
    /\ EngineCalled(pool[r]) <=> error # NoResolutionError
    /\ pool' = [pool EXCEPT ![r].pc = "done", ![r].ended = "raised"]
    /\ UNCHANGED <<download_queue, current_download, successful_downloads,
                   failed_downloads, controls_enabled, summary_open, next_id,
                   events>>
    /\ UNCHANGED selector

\* download_* raises (no resolution, or an error of the engine): run emits
\* finished(False, classified message, "")
run_exception(r, error) ==
    /\ r \in Live(pool)
    /\ pool[r].pc = "running"
    /\ EngineCalled(pool[r]) <=> error # NoResolutionError
    /\ pool' = [pool EXCEPT ![r].pc = "done", ![r].ended = "raised"]
    /\ events' = Append(events, run_raised(r, error))
    /\ UNCHANGED <<download_queue, current_download, successful_downloads,
                   failed_downloads, controls_enabled, summary_open, next_id>>
    /\ UNCHANGED selector

\* ------------------------------------------------------------ coordinator
\* the smallest runnable identity not in use
FreshRid(p) == MinOf({r \in 1..(Cardinality(DOMAIN p) + 1) : r \notin DOMAIN p})

\* thread_pool.start(download_runnable)
Started(p, download) ==
    [r \in DOMAIN p \cup {FreshRid(p)} |->
        IF r \in DOMAIN p THEN p[r] ELSE DownloadRunnable(download)]

\* the runnable object handled is released
Released(p, r) == [x \in DOMAIN p \ {r} |-> p[x]]

\* the entry process_queue takes: download_queue[0]
NextDownload(q) == q[1]

\* process_queue on queue q, runnables p, controls ce: the new
\* current_download, pool and controls_enabled
process_queue(q, cur, p, ce) ==
    IF q = <<>>
    THEN [current_download |-> cur, pool |-> p, controls_enabled |-> TRUE]
    ELSE [current_download |-> FreshRid(p),
          pool |-> Started(p, NextDownload(q)),
          controls_enabled |-> ce]

\* an add_to_queue that puts the new entry first
Enqueued_Front(q, entry) == <<entry>> \o q

\* add_to_queue: self.download_queue.append(entry)
Enqueued(q, entry) == Append(q, entry)

\* an add_to_queue that only rejects the empty text
Accepted_NonEmpty(url) == url # <<>>

\* add_to_queue: is_valid, error_message = self.is_valid_video_url(url)
Accepted(url) == is_valid_video_url(url).ok

\* add_to_queue; text, video_checked and combo_text are what the widgets hold
add_to_queue(text, video_checked, combo_text) ==
    /\ ~summary_open
    /\ next_id <= MaxJobs
    /\ LET url == strip(text)
           mode == IF video_checked THEN "video" ELSE "audio"
           resolution == IF mode = "video" THEN combo_text ELSE NoneVal
       IN  IF ~Accepted(url)
           THEN UNCHANGED <<download_queue, next_id, url_input>>
           ELSE /\ download_queue' = Enqueued(download_queue,
                        [id |-> next_id, url |-> url, mode |-> mode,
                         resolution |-> resolution,
                         service |-> get_service_name(url)])
                /\ next_id' = next_id + 1
                /\ url_input' = <<>>
    /\ UNCHANGED <<current_download, successful_downloads, failed_downloads,
                   controls_enabled, pool, events, summary_open>>
    /\ UNCHANGED <<video_radio, resolution_combo, resolution_workers,
                   pending_probe, classified>>

\* a start_downloads that does not look at current_download
MayStart_Always(cur) == TRUE

\* start_downloads: "if self.current_download is None"
MayStart(cur) == cur = NoDownload

start_downloads ==
    /\ ~summary_open
    /\ IF download_queue = <<>>
       THEN UNCHANGED <<current_download, pool, controls_enabled>>
       ELSE IF MayStart(current_download)
       THEN LET n == process_queue(download_queue, current_download, pool, FALSE)
            IN  /\ current_download' = n.current_download
                /\ pool' = n.pool
                /\ controls_enabled' = n.controls_enabled
       ELSE /\ controls_enabled' = FALSE
            /\ UNCHANGED <<current_download, pool>>
    /\ UNCHANGED <<download_queue, successful_downloads, failed_downloads,
                   events, summary_open, next_id>>
    /\ UNCHANGED selector

\* update_progress(status, percent): only the progress bar and the status
\* label change
update_progress ==
    /\ events # <<>>
    /\ Head(events).sig = "progress"
    /\ events' = Tail(events)
    /\ UNCHANGED <<download_queue, current_download, successful_downloads,
                   failed_downloads, controls_enabled, pool, summary_open, next_id>>
    /\ UNCHANGED selector

\* on_download_finished: what is appended to successful_downloads
RecordedSuccess(cur, p, success, filename) ==
    IF success /\ cur # NoDownload /\ filename # ""
    THEN <<[filename |-> filename, url |-> p[cur].url]>> ELSE <<>>

\* on_download_finished: what is appended to failed_downloads
RecordedFailure(cur, p, success, message) ==
    IF ~success /\ cur # NoDownload
    THEN <<[url |-> p[cur].url, message |-> message]>> ELSE <<>>

\* on_download_finished: "if self.download_queue: self.download_queue.pop(0)"
Popped(q) == IF q # <<>> THEN Tail(q) ELSE q

\* an on_download_finished that goes on only after a success
Continues_AfterSuccess(q, success) == success /\ q # <<>>

\* on_download_finished: the queue is processed further when entries remain
Continues(q, success) == q # <<>>

\* on_download_finished(success, message, filename), the slot of the finished
\* signal.  With the queue empty it calls show_download_summary, which returns
\* at once when both lists are empty and else opens a modal message box that
\* shows them; the rest of the handler runs when the box is closed
\* (summary_closed).
on_download_finished ==
    /\ events # <<>>
    /\ Head(events).sig = "finished"
    /\ LET e == Head(events)
           succ == successful_downloads \o
                   RecordedSuccess(current_download, pool, e.success, e.filename)
           fail == failed_downloads \o
                   RecordedFailure(current_download, pool, e.success, e.message)
           q == Popped(download_queue)
           p == Released(pool, e.rid)
       IN  /\ events' = Tail(events)
           /\ download_queue' = q
           /\ successful_downloads' = succ
           /\ failed_downloads' = fail
           /\ IF ~Continues(q, e.success)
              THEN /\ current_download' = NoDownload
                   /\ pool' = p
                   /\ IF succ = <<>> /\ fail = <<>>
                      THEN /\ controls_enabled' = TRUE
                           /\ UNCHANGED summary_open
                      ELSE /\ summary_open' = TRUE
                           /\ UNCHANGED controls_enabled
              ELSE LET n == process_queue(q, NoDownload, p, controls_enabled)
                   IN  /\ current_download' = n.current_download
                       /\ pool' = n.pool
                       /\ controls_enabled' = n.controls_enabled
                       /\ UNCHANGED summary_open
    /\ UNCHANGED next_id
    /\ UNCHANGED selector

\* a show_download_summary that forgets failed_downloads.clear()
summary_closed_KeepsFailed ==
    /\ summary_open
    /\ summary_open' = FALSE
    /\ successful_downloads' = <<>>
    /\ controls_enabled' = TRUE
    /\ UNCHANGED <<download_queue, current_download, pool, events, next_id,
                   failed_downloads>>
    /\ UNCHANGED selector

\* the message box of show_download_summary is closed: both lists are
\* cleared, then on_download_finished enables the controls
summary_closed ==
    /\ summary_open
    /\ summary_open' = FALSE
    /\ successful_downloads' = <<>>
    /\ failed_downloads' = <<>>
    /\ controls_enabled' = TRUE
    /\ UNCHANGED <<download_queue, current_download, pool, events, next_id>>
    /\ UNCHANGED selector

\* a cancel that also stops the worker
cancel_AndStop(p, r) == [p EXCEPT ![r].cancel_event = TRUE, ![r].pc = "done"]

\* DownloadRunnable.cancel: self.cancel_event.set()
cancel(p, r) == [p EXCEPT ![r].cancel_event = TRUE]

\* cancel_download
cancel_download ==
    /\ ~summary_open
    /\ IF current_download # NoDownload
       THEN pool' = cancel(pool, current_download)
       ELSE UNCHANGED pool
    /\ UNCHANGED <<download_queue, current_download, successful_downloads,
                   failed_downloads, controls_enabled, events, summary_open, next_id>>
    /\ UNCHANGED selector

\* clear_queue on queue q: it returns at once when q is empty, and
\* download_queue.clear() runs when the reply is Yes
Cleared(q, reply) == IF q # <<>> /\ reply = "Yes" THEN <<>> ELSE q

\* clear_queue; reply is the answer to the confirmation question
clear_queue(reply) ==
    /\ ~summary_open
    /\ download_queue' = Cleared(download_queue, reply)
    /\ UNCHANGED <<current_download, successful_downloads, failed_downloads,
                   controls_enabled, pool, events, summary_open, next_id>>
    /\ UNCHANGED selector

\* del self.download_queue[current_row]
Deleted(q, current_row) ==
    [i \in 1..(Len(q) - 1) |-> IF i <= current_row THEN q[i] ELSE q[i + 1]]

\* remove_selected; current_row is queue_list.currentRow(): -1 or a row of
\* the list, which shows one row per queue entry
remove_selected(current_row) ==
    /\ ~summary_open
    /\ current_row \in -1..(Len(download_queue) - 1)
    /\ IF current_row >= 0
       THEN download_queue' = Deleted(download_queue, current_row)
       ELSE UNCHANGED download_queue
    /\ UNCHANGED <<current_download, successful_downloads, failed_downloads,
                   controls_enabled, pool, events, summary_open, next_id>>
    /\ UNCHANGED selector

\* update_queue_display: the prefix of the row of an entry that is being
\* downloaded
ActiveMarker == "hourglass"

\* update_queue_display: "video (<resolution>)" or "audio"
mode_text(item) ==
    IF item.mode = "video" THEN <<"video", item.resolution>> ELSE <<"audio">>

\* update_queue_display: the test that gives a row the marker; cur is
\* current_download, compared with the entry by url, mode and resolution
IsMarked(cur, p, item) ==
    /\ cur # NoDownload
    /\ p[cur].url = item.url
    /\ p[cur].mode = item.mode
    /\ (p[cur].mode = "audio" \/ p[cur].resolution = item.resolution)

\* update_queue_display: the rows it puts into queue_list, one per entry of
\* the queue and in its order
update_queue_display(q, cur, p) ==
    [i \in 1..Len(q) |->
        [prefix |-> IF IsMarked(cur, p, q[i]) THEN ActiveMarker ELSE " ",
         number |-> i,
         service |-> q[i].service,
         url |-> q[i].url,
         mode_text |-> mode_text(q[i])]]

\* the rows of the QListWidget queue_list.  add_to_queue, process_queue,
\* on_download_finished, clear_queue and remove_selected each call
\* update_queue_display after their last write to download_queue and
\* current_download, and nothing else writes either of the two or the list,
\* so between handlers the list holds the rows of the present queue.
queue_list == update_queue_display(download_queue, current_download, pool)

\* ------------------------------------------------------------ specification
\* the steps of the workers and the deliveries of their signals
RunSuccess == \E r \in DOMAIN pool : run_success(r)

RunException ==
    \E r \in DOMAIN pool, error \in EngineErrors \cup {NoResolutionError} :
        run_exception(r, error)

Terminates == RunSuccess \/ RunException

AddToQueue == \E a \in AddInputs : add_to_queue(a[1], a[2], a[3])

\* a callback of the engine; the engine makes at most MaxHooks callbacks that
\* return
ProgressHook ==
    \E r \in DOMAIN pool, d \in HookInputs :
        /\ pool[r].cancel_event \/ pool[r].hooks < MaxHooks
        /\ progress_hook(r, d)

Common ==
    \/ AddToQueue
    \/ start_downloads
    \/ cancel_download
    \/ update_progress
    \/ on_download_finished
    \/ summary_closed
    \/ ProgressHook
    \/ Terminates

ClearQueue == \E reply \in {"Yes", "No"} : clear_queue(reply)

RemoveSelected == \E row \in -1..(MaxJobs - 1) : remove_selected(row)

Next == Common \/ ClearQueue \/ RemoveSelected

Spec == Init /\ [][Next]_vars

\* the runs in which "remove selected" is never pressed
ClearSpec == Init /\ [][Common \/ ClearQueue]_vars

\* the runs in which "clear queue" is never pressed
RemoveSpec == Init /\ [][Common \/ RemoveSelected]_vars

\* the runs in which no entry is removed and the queue is not cleared
DrainSpec == Init /\ [][Common]_vars

\* every run ends and the event loop delivers every queued signal
FairSpec ==
    /\ Spec
    /\ WF_vars(Terminates)
    /\ WF_vars(update_progress)
    /\ WF_vars(on_download_finished)

\* ------------------------------------------------------ resolution probe
\* a format dictionary of extract_info; height 0 stands for a missing or None
\* height
Format(height, vcodec) == [height |-> height, vcodec |-> vcodec]

\* the format lists the engine answers with
FormatsHd == <<Format(720, "avc1"), Format(1080, "avc1"), Format(720, "vp9"),
               Format(0, "none")>>
FormatsSd == <<Format(360, "avc1"), Format(720, "none")>>
FormatsAudioOnly == <<Format(0, "none")>>
FormatLists == {FormatsHd, FormatsSd, FormatsAudioOnly}

\* f"{fmt['height']}p"
ResolutionText(height) ==
    CASE height = 360 -> "360p"
      [] height = 720 -> "720p"
      [] height = 1080 -> "1080p"

\* int(x.replace('p', ''))
ResolutionNumber(x) ==
    CASE x = "360p" -> 360
      [] x = "720p" -> 720
      [] x = "1080p" -> 1080

\* sorted(list(resolutions), key=lambda x: int(x.replace('p', '')), reverse=True)
RECURSIVE SortedDescending(_)
SortedDescending(resolutions) ==
    IF resolutions = {} THEN <<>>
    ELSE LET top == CHOOSE x \in resolutions :
                        \A y \in resolutions :
                            ResolutionNumber(x) >= ResolutionNumber(y)
         IN  <<top>> \o SortedDescending(resolutions \ {top})

\* a run that takes the heights of the formats without a video track too
sorted_resolutions_AnyCodec(formats) ==
    LET resolutions ==
            {ResolutionText(formats[i].height) :
                i \in {k \in DOMAIN formats : formats[k].height # 0}}
    IN  SortedDescending(IF resolutions = {} THEN {"720p"} ELSE resolutions)

\* a run without the fallback
sorted_resolutions_NoFallback(formats) ==
    SortedDescending(
        {ResolutionText(formats[i].height) :
            i \in {k \in DOMAIN formats :
                      formats[k].height # 0 /\ formats[k].vcodec # "none"}})

\* ResolutionWorker.run: the list it emits for the formats of extract_info
sorted_resolutions(formats) ==
    LET resolutions ==
            {ResolutionText(formats[i].height) :
                i \in {k \in DOMAIN formats :
                          formats[k].height # 0 /\ formats[k].vcodec # "none"}}
    IN  SortedDescending(IF resolutions = {} THEN {"720p"} ELSE resolutions)

\* a signal of worker w queued to the GUI thread
ProbeSignal(w, sig, resolutions) ==
    [sig |-> sig, rid |-> w, success |-> FALSE, message |-> Message("", ""),
     filename |-> "", percent |-> 0, resolutions |-> resolutions]

\* what a worker that has not emitted carries in its emitted field
NoSignal == ProbeSignal(0, "none", <<>>)

\* ResolutionWorker.__init__ and start; emitted remembers the signal of run
\* and formats the list extract_info returned
ResolutionWorker(url) ==
    [url |-> url, pc |-> "running", emitted |-> NoSignal, formats |-> <<>>]

\* the process was aborted by the destruction of a running QThread
Aborted ==
    \E w \in DOMAIN resolution_workers : resolution_workers[w].pc = "aborted"

\* a run that emits error_occurred after resolutions_found
ResolutionWorker_run_Both(w, formats) ==
    /\ ~Aborted
    /\ w \in DOMAIN resolution_workers
    /\ resolution_workers[w].pc = "running"
    /\ LET found == ProbeSignal(w, "resolutions_found", sorted_resolutions(formats))
       IN  /\ resolution_workers' =
                 [resolution_workers EXCEPT ![w].pc = "emitted", ![w].emitted = found,
                                            ![w].formats = formats]
           /\ events' = events \o <<found, ProbeSignal(w, "error_occurred", <<>>)>>
    /\ UNCHANGED <<download_queue, current_download, successful_downloads,
                   failed_downloads, controls_enabled, pool, summary_open, next_id,
                   url_input, video_radio, resolution_combo, pending_probe>>
    /\ UNCHANGED classified

\* ResolutionWorker.run when extract_info returns formats
ResolutionWorker_run(w, formats) ==
    /\ ~Aborted
    /\ w \in DOMAIN resolution_workers
    /\ resolution_workers[w].pc = "running"
    /\ LET found == ProbeSignal(w, "resolutions_found", sorted_resolutions(formats))
       IN  /\ resolution_workers' =
                 [resolution_workers EXCEPT ![w].pc = "emitted", ![w].emitted = found,
                                            ![w].formats = formats]
           /\ events' = Append(events, found)
    /\ UNCHANGED <<download_queue, current_download, successful_downloads,
                   failed_downloads, controls_enabled, pool, summary_open, next_id,
                   url_input, video_radio, resolution_combo, pending_probe>>
    /\ UNCHANGED classified

\* ResolutionWorker.run when extract_info raises
ResolutionWorker_run_except(w) ==
    /\ ~Aborted
    /\ w \in DOMAIN resolution_workers
    /\ resolution_workers[w].pc = "running"
    /\ LET error == ProbeSignal(w, "error_occurred", <<>>)
       IN  /\ resolution_workers' =
                 [resolution_workers EXCEPT ![w].pc = "emitted", ![w].emitted = error]
           /\ events' = Append(events, error)
    /\ UNCHANGED <<download_queue, current_download, successful_downloads,
                   failed_downloads, controls_enabled, pool, summary_open, next_id,
                   url_input, video_radio, resolution_combo, pending_probe>>
    /\ UNCHANGED classified

\* update_resolutions dropped its reference to worker w while the thread of
\* w runs: the QThread object can be destroyed under the running thread,
\* which aborts the process
worker_destroyed(w) ==
    /\ ~Aborted
    /\ w \in DOMAIN resolution_workers
    /\ w < Len(resolution_workers)
    /\ resolution_workers[w].pc = "running"
    /\ resolution_workers' = [resolution_workers EXCEPT ![w].pc = "aborted"]
    /\ UNCHANGED <<download_queue, current_download, successful_downloads,
                   failed_downloads, controls_enabled, pool, events, summary_open,
                   next_id, url_input, video_radio, resolution_combo,
                   pending_probe>>
    /\ UNCHANGED classified

\* the user edits url_input
url_input_edited(text) ==
    /\ ~Aborted
    /\ pending_probe = NoProbe
    /\ ~summary_open
    /\ url_input' = text
    /\ UNCHANGED <<download_queue, current_download, successful_downloads,
                   failed_downloads, controls_enabled, pool, events, summary_open,
                   next_id, video_radio, resolution_combo, resolution_workers,
                   pending_probe>>
    /\ UNCHANGED classified

\* the user checks the other radio button; on_mode_changed only shows or
\* hides the resolution widgets
on_mode_changed ==
    /\ ~Aborted
    /\ pending_probe = NoProbe
    /\ ~summary_open
    /\ video_radio' = ~video_radio
    /\ UNCHANGED <<download_queue, current_download, successful_downloads,
                   failed_downloads, controls_enabled, pool, events, summary_open,
                   next_id, url_input, resolution_combo, resolution_workers,
                   pending_probe>>
    /\ UNCHANGED classified

\* the user picks item index of the enabled resolution_combo
resolution_selected(index) ==
    /\ ~Aborted
    /\ pending_probe = NoProbe
    /\ ~summary_open
    /\ resolution_combo.enabled
    /\ index \in 0..(Len(resolution_combo.items) - 1)
    /\ index # resolution_combo.index
    /\ resolution_combo' = [resolution_combo EXCEPT !.index = index]
    /\ UNCHANGED <<download_queue, current_download, successful_downloads,
                   failed_downloads, controls_enabled, pool, events, summary_open,
                   next_id, url_input, video_radio, resolution_workers,
                   pending_probe>>
    /\ UNCHANGED classified

\* update_resolutions up to QApplication.processEvents(), for the text of
\* url_input: nothing for a text that is empty or not http(s), else the
\* placeholder item in the disabled combo
update_resolutions_begin(text) ==
    LET url == strip(text)
    IN  IF url = <<>> \/ ~startswith_http(url)
        THEN UNCHANGED <<resolution_combo, pending_probe>>
        ELSE /\ resolution_combo' = ComboBox(<<FetchingResolutions>>, 0, FALSE)
             /\ pending_probe' = url

\* refresh_button.clicked: update_resolutions; at most MaxProbes workers are
\* created
update_resolutions ==
    /\ ~Aborted
    /\ pending_probe = NoProbe
    /\ ~summary_open
    /\ Len(resolution_workers) < MaxProbes
    /\ update_resolutions_begin(url_input)
    /\ UNCHANGED <<download_queue, current_download, successful_downloads,
                   failed_downloads, controls_enabled, pool, events, summary_open,
                   next_id, url_input, video_radio, resolution_workers>>
    /\ UNCHANGED classified

\* paste_url with clipboard text clip
paste_url(clip) ==
    /\ ~Aborted
    /\ pending_probe = NoProbe
    /\ ~summary_open
    /\ Len(resolution_workers) < MaxProbes
    /\ LET url == strip(clip)
       IN  IF ~is_valid_video_url(url).ok
           THEN UNCHANGED <<url_input, resolution_combo, pending_probe>>
           ELSE /\ url_input' = url
                /\ IF video_radio
                   THEN update_resolutions_begin(url)
                   ELSE UNCHANGED <<resolution_combo, pending_probe>>
    /\ UNCHANGED <<download_queue, current_download, successful_downloads,
                   failed_downloads, controls_enabled, pool, events, summary_open,
                   next_id, video_radio, resolution_workers>>
    /\ UNCHANGED classified

\* the signals of worker w that are queued
SignalsOf(w) ==
    {i \in DOMAIN events :
        /\ events[i].sig \in {"resolutions_found", "error_occurred"}
        /\ events[i].rid = w}

\* seq without the positions in drop
RECURSIVE Without(_, _, _)
Without(seq, drop, i) ==
    IF i > Len(seq) THEN <<>>
    ELSE (IF i \in drop THEN <<>> ELSE <<seq[i]>>) \o Without(seq, drop, i + 1)

\* update_resolutions after processEvents(): the new worker replaces
\* self.resolution_worker, is connected and started. The worker replaced
\* keeps running and its signals stay connected; when it has emitted and the
\* signal is still queued, releasing the object can discard the signal
\* (discards) or leave it queued.
update_resolutions_start(discards) ==
    /\ ~Aborted
    /\ pending_probe # NoProbe
    /\ LET last == Len(resolution_workers)
           queued == IF last = 0 THEN {} ELSE SignalsOf(last)
       IN  IF discards
           THEN /\ queued # {}
                /\ events' = Without(events, queued, 1)
                /\ resolution_workers' =
                       Append([resolution_workers EXCEPT ![last].pc = "discarded"],
                              ResolutionWorker(pending_probe))
           ELSE /\ events' = events
                /\ resolution_workers' =
                       Append(resolution_workers, ResolutionWorker(pending_probe))
    /\ pending_probe' = NoProbe
    /\ UNCHANGED <<download_queue, current_download, successful_downloads,
                   failed_downloads, controls_enabled, pool, summary_open, next_id,
                   url_input, video_radio, resolution_combo>>
    /\ UNCHANGED classified

\* on_resolutions_found: the index of settings' last_resolution when it is in
\* the list, else the first item
Preselected(sorted) ==
    IF \E i \in DOMAIN sorted : sorted[i] = settings.last_resolution
    THEN (CHOOSE i \in DOMAIN sorted : sorted[i] = settings.last_resolution) - 1
    ELSE 0

\* on_resolutions_found, delivered from the signal queue
on_resolutions_found ==
    /\ ~Aborted
    /\ events # <<>>
    /\ Head(events).sig = "resolutions_found"
    /\ LET found == Head(events).resolutions
       IN  resolution_combo' = ComboBox(found, Preselected(found), TRUE)
    /\ events' = Tail(events)
    /\ resolution_workers' =
           [resolution_workers EXCEPT ![Head(events).rid].pc = "delivered"]
    /\ UNCHANGED <<download_queue, current_download, successful_downloads,
                   failed_downloads, controls_enabled, pool, summary_open, next_id,
                   url_input, video_radio, pending_probe>>
    /\ UNCHANGED classified

\* an on_resolutions_error that adds no item
on_resolutions_error_NoDefault ==
    /\ ~Aborted
    /\ events # <<>>
    /\ Head(events).sig = "error_occurred"
    /\ resolution_combo' = ComboBox(<<>>, -1, TRUE)
    /\ events' = Tail(events)
    /\ resolution_workers' =
           [resolution_workers EXCEPT ![Head(events).rid].pc = "delivered"]
    /\ UNCHANGED <<download_queue, current_download, successful_downloads,
                   failed_downloads, controls_enabled, pool, summary_open, next_id,
                   url_input, video_radio, pending_probe>>
    /\ UNCHANGED classified

\* on_resolutions_error, delivered from the signal queue
on_resolutions_error ==
    /\ ~Aborted
    /\ events # <<>>
    /\ Head(events).sig = "error_occurred"
    /\ resolution_combo' = ComboBox(<<"720p">>, 0, TRUE)
    /\ events' = Tail(events)
    /\ resolution_workers' =
           [resolution_workers EXCEPT ![Head(events).rid].pc = "delivered"]
    /\ UNCHANGED <<download_queue, current_download, successful_downloads,
                   failed_downloads, controls_enabled, pool, summary_open, next_id,
                   url_input, video_radio, pending_probe>>
    /\ UNCHANGED classified

\* add_button.clicked with what the widgets hold; at most MaxSelectorJobs
\* jobs are submitted
add_from_widgets ==
    /\ ~Aborted
    /\ pending_probe = NoProbe
    /\ next_id <= MaxSelectorJobs
    /\ add_to_queue(url_input, video_radio, currentText(resolution_combo))

UrlInputEdited == \E text \in {UrlYouTube, UrlOk} : url_input_edited(text)

PasteUrl == \E clip \in {<<Space>> \o UrlYouTube, UrlShortId} : paste_url(clip)

ResolutionSelected == \E index \in 0..1 : resolution_selected(index)

UpdateResolutionsStart == \E discards \in BOOLEAN : update_resolutions_start(discards)

WorkerRuns ==
    \E w \in DOMAIN resolution_workers :
        \/ \E formats \in FormatLists : ResolutionWorker_run(w, formats)
        \/ ResolutionWorker_run_except(w)

WorkerDestroyed == \E w \in DOMAIN resolution_workers : worker_destroyed(w)

\* the runs of the resolution selector in which no download is started
ProbeSpec ==
    Init /\ [][\/ UrlInputEdited
               \/ PasteUrl
               \/ on_mode_changed
               \/ ResolutionSelected
               \/ update_resolutions
               \/ UpdateResolutionsStart
               \/ WorkerRuns
               \/ WorkerDestroyed
               \/ on_resolutions_found
               \/ on_resolutions_error
               \/ add_from_widgets]_vars

\* the runs of the workers in which the user only pastes and refreshes
WorkerSpec ==
    Init /\ [][\/ PasteUrl
               \/ update_resolutions
               \/ UpdateResolutionsStart
               \/ WorkerRuns
               \/ WorkerDestroyed
               \/ on_resolutions_found
               \/ on_resolutions_error]_vars

\* the format dictionaries of the answers of the engine
FormatDicts ==
    {Format(height, vcodec) : height \in {0, 360, 720, 1080},
                              vcodec \in {"avc1", "none"}}

\* the sequences of length n over FormatDicts
RECURSIVE FormatSeqs(_)
FormatSeqs(n) ==
    IF n = 0 THEN {<<>>}
    ELSE {Append(formats, fmt) : formats \in FormatSeqs(n - 1), fmt \in FormatDicts}

\* heights 360, 720, 720, 1080 with a video codec and entries without one
FormatsFixture ==
    <<Format(360, "avc1"), Format(0, "none"), Format(720, "avc1"),
      Format(720, "vp9"), Format(360, "none"), Format(1080, "avc1")>>

\* every answer of at most MaxFormats formats, and the fixture
AllFormatLists ==
    UNION {FormatSeqs(n) : n \in 0..MaxFormats} \cup {FormatsFixture}

\* the first probe: a url is pasted in video mode
FirstProbe ==
    /\ resolution_workers = <<>>
    /\ video_radio
    /\ paste_url(UrlYouTube)

\* the worker gets any answer of the engine
AnyAnswer ==
    \E w \in DOMAIN resolution_workers, formats \in AllFormatLists :
        ResolutionWorker_run(w, formats)

\* the runs of one probe over the answers of the engine
ResolutionSpec ==
    Init /\ [][\/ FirstProbe
               \/ UpdateResolutionsStart
               \/ AnyAnswer
               \/ on_resolutions_found]_vars

\* the runs of one probe next to the downloads of the jobs submitted from
\* the widgets
FlowSpec ==
    Init /\ [][\/ FirstProbe
               \/ UpdateResolutionsStart
               \/ WorkerRuns
               \/ on_resolutions_found
               \/ on_resolutions_error
               \/ UrlInputEdited
               \/ add_from_widgets
               \/ start_downloads
               \/ cancel_download
               \/ ProgressHook
               \/ Terminates
               \/ update_progress
               \/ on_download_finished
               \/ summary_closed]_vars

\* ------------------------------------------------------------- classifier
\* the texts typed into url_input: whitespace, scheme, www., host, path,
\* query and whitespace, each of them optional
LeadParts == {<<>>, <<Space>>}
SchemeParts == {<<>>, <<"https://">>, <<"http://">>, <<"ftp://">>}
WwwParts == {<<>>, <<"www.">>}
HostParts ==
    {<<>>, <<"youtube.com">>, <<"youtu.be">>, <<"vk.com">>, <<"vkvideo.ru">>,
     <<"rutube.ru">>, <<"ok.ru">>, <<"my.mail.ru">>, <<"book.ru">>,
     <<"example.com">>}
PathParts ==
    {<<>>, <<"/watch?v=", "ID11">>, <<"/watch?v=", "ID10">>, <<"/", "ID11">>,
     <<"/shorts/", "ID11">>, <<"/video", "-NUM_NUM">>, <<"/video/", "ID32">>,
     <<"/video/", "NUM">>, <<"/", "video/", "WPATH/", "NUM.html">>,
     <<"/clip">>}
QueryParts ==
    {<<>>, <<"?", "ref=youtube.com">>, <<"&", "ref=youtube.com">>,
     <<"?", "t=NUM">>}
TrailParts == {<<>>, <<Space>>}

ClassifierTexts ==
    {l \o s \o w \o h \o p \o q \o t :
        l \in LeadParts, s \in SchemeParts, w \in WwwParts, h \in HostParts,
        p \in PathParts, q \in QueryParts, t \in TrailParts}

\* add_to_queue up to the service name, for the first submission: the text
\* is stripped and classified, an accepted url gets its service name
classify ==
    /\ classified = NotClassified
    /\ LET url == strip(url_input)
           valid == is_valid_video_url(url)
       IN  classified' =
               [text |-> url_input, url |-> url, ok |-> valid.ok,
                error |-> valid.error, service |-> valid.service,
                name |-> IF valid.ok THEN get_service_name(url) ELSE NoneVal]
    /\ UNCHANGED <<download_queue, current_download, successful_downloads,
                   failed_downloads, controls_enabled, pool, events, summary_open,
                   next_id, url_input, video_radio, resolution_combo,
                   resolution_workers, pending_probe>>

\* the user types a text into the empty url_input
TextTyped ==
    /\ url_input = <<>>
    /\ classified = NotClassified
    /\ \E text \in ClassifierTexts : url_input_edited(text)

\* the runs in which one text is typed and classified
ClassifierSpec == Init /\ [][TextTyped \/ classify]_vars

\* one submitted Video job
AddOne == next_id = 1 /\ add_to_queue(UrlYouTube, TRUE, "720p")

\* a callback of the engine during a download in stages; the engine makes at
\* most MaxStageHooks callbacks
StageHook ==
    \E r \in DOMAIN pool, d \in StageInputs :
        /\ pool[r].hooks < MaxStageHooks
        /\ progress_hook(r, d)

\* the runs of one job with the callbacks of a download in stages
ProgressSpec ==
    Init /\ [][\/ AddOne
               \/ start_downloads
               \/ cancel_download
               \/ StageHook
               \/ RunSuccess
               \/ update_progress
               \/ on_download_finished
               \/ summary_closed]_vars

\* the engine raises any of the error texts
RunAnyException ==
    \E r \in DOMAIN pool, error \in ErrorTexts : run_exception(r, error)

\* the runs of one job that the engine may end with any error text
ErrorSpec ==
    Init /\ [][\/ AddOne
               \/ start_downloads
               \/ cancel_download
               \/ ProgressHook
               \/ RunSuccess
               \/ RunAnyException
               \/ update_progress
               \/ on_download_finished
               \/ summary_closed]_vars

\* ------------------------------------------------------------------ claims
\* the identities of the entries of queue q
Ids(q) == {q[i].id : i \in 1..Len(q)}

\* the runnable whose finished signal on_download_finished is about to handle
Finishing == pool[Head(events).rid]

\* the queue entry the Active job was created from, as a set
ActiveEntry ==
    IF current_download # NoDownload THEN {pool[current_download].job} ELSE {}

\* C1: at most one job is Active at any instant: at most one DownloadRunnable
\* has been given to the thread pool without its finished signal having been
\* handled by on_download_finished.
C1_AtMostOneActive ==
    /\ Cardinality(DOMAIN pool) <= 1
    /\ current_download # NoDownload => DOMAIN pool = {current_download}

\* C1 witness: the second job is Active after the first one's finished signal
\* was handled, with a third job waiting.
C1_Witness ==
    /\ current_download # NoDownload
    /\ pool[current_download].job = 2
    /\ Len(download_queue) = 2
    /\ Len(successful_downloads) + Len(failed_downloads) = 1

\* C2 (as claimed): whenever a job is Active, download_queue is non-empty and
\* download_queue[0] is the entry the Active runnable was created from.
C2_ActiveIsHead ==
    current_download # NoDownload =>
        /\ download_queue # <<>>
        /\ download_queue[1].id = pool[current_download].job

\* C3 (as claimed): the entry on_download_finished removes from the queue is
\* the entry of the job that was Active and has just ended; it never removes
\* an entry that was never started.
C3_RemovesOwnEntry ==
    [][on_download_finished =>
          \A x \in Ids(download_queue) \ Ids(download_queue') : x = Finishing.job]_vars

\* a job becomes Active in this step
BecomesActive ==
    /\ current_download' # NoDownload
    /\ \/ current_download = NoDownload
       \/ pool'[current_download'].job # pool[current_download].job

\* C4 (as claimed): jobs run in the order of their enqueueing: the job that
\* becomes Active when the Active job's finished signal is handled is the
\* earliest-enqueued of the other jobs in the queue, and no job becomes Active
\* while the finished signal of another is still to be handled.
C4_Fifo ==
    [][/\ (on_download_finished /\ current_download' # NoDownload) =>
            LET remaining == Ids(download_queue) \ {Finishing.job}
            IN  /\ pool'[current_download'].job \in remaining
                /\ \A y \in remaining : pool'[current_download'].job <= y
       /\ BecomesActive => (on_download_finished \/ DOMAIN pool = {})]_vars

\* C5 (as claimed): every finished signal handled records exactly one outcome:
\* a success appends one (filename, url) to successful_downloads and nothing
\* to failed_downloads, a failure or cancellation appends one (url, message) to
\* failed_downloads and nothing to successful_downloads.
C5_OneOutcomePerTerminal ==
    [][on_download_finished =>
          IF Head(events).success
          THEN /\ successful_downloads' = Append(successful_downloads,
                      [filename |-> Head(events).filename, url |-> Finishing.url])
               /\ failed_downloads' = failed_downloads
          ELSE /\ failed_downloads' = Append(failed_downloads,
                      [url |-> Finishing.url, message |-> Head(events).message])
               /\ successful_downloads' = successful_downloads]_vars

\* the cancellation texts of the source, not classified as an error
CancelledMessages == {MsgDownloadCancelled, Message("", CancelledByUserError.text)}

\* C6 (as claimed): a run ended by the cancellation check of progress_hook is
\* recorded in failed_downloads with the fixed cancellation message, which did
\* not pass through get_user_friendly_error_message (it is not a Generic error).
C6_CancelledMessage ==
    [][(on_download_finished /\ Finishing.ended = "cancelled") =>
          /\ ~Head(events).success
          /\ Head(events).message \in CancelledMessages
          /\ failed_downloads' = Append(failed_downloads,
                 [url |-> Finishing.url, message |-> Head(events).message])
          /\ successful_downloads' = successful_downloads]_vars

\* C7: whenever a finished signal of any kind is handled and entries remain,
\* the next job is started in the same step; and, every run ending and every
\* signal being delivered, once a job is Active the queue eventually is empty
\* with no job Active.
C7_NeverBlocks ==
    /\ [][(on_download_finished /\ download_queue' # <<>>) =>
             /\ current_download' # NoDownload
             /\ current_download' \in DOMAIN pool'
             /\ pool'[current_download'].pc = "running"
             /\ pool'[current_download'].job = download_queue'[1].id]_vars
    /\ (current_download # NoDownload) ~>
            (download_queue = <<>> /\ current_download = NoDownload)

\* C7 witness: after a failed or cancelled job was recorded, the next job runs.
C7_Witness ==
    /\ failed_downloads # <<>>
    /\ current_download # NoDownload
    /\ pool[current_download].pc = "running"
    /\ pool[current_download].job = download_queue[1].id

\* C8 (as claimed): remove_selected never removes the queue entry of the
\* Active job, whatever row is selected.
C8_RemoveSparesActive ==
    [][RemoveSelected =>
          \A x \in Ids(download_queue) \ Ids(download_queue') : x \notin ActiveEntry]_vars

\* C9 (as claimed): a confirmed clear_queue removes the Queued entries and
\* leaves the Active job alone: its entry stays in the queue, as the only one,
\* and the runnable and current_download are unchanged.
C9_ClearSparesActive ==
    [][clear_queue("Yes") =>
          /\ Ids(download_queue') = ActiveEntry \cap Ids(download_queue)
          /\ pool' = pool
          /\ current_download' = current_download]_vars

\* the entries of the queue that are not the Active job's
QueuedSection == Ids(download_queue) \ ActiveEntry

\* C10 (as claimed): clear_queue with no Queued entry, with or without an
\* Active job, changes nothing, and clearing twice gives what clearing once
\* gives.
C10_ClearIdempotent ==
    /\ [][(ClearQueue /\ QueuedSection = {}) =>
             UNCHANGED <<download_queue, current_download, pool,
                         successful_downloads, failed_downloads>>]_vars
    /\ [](\A reply \in {"Yes", "No"} :
             Cleared(Cleared(download_queue, reply), reply)
                 = Cleared(download_queue, reply))

\* the lists of show_download_summary
RunSummary == <<successful_downloads, failed_downloads>>

\* the step sets the cancellation flag of a runnable
SetsCancelFlag ==
    \E r \in DOMAIN pool \cap DOMAIN pool' :
        /\ pool'[r].job = pool[r].job
        /\ ~pool[r].cancel_event
        /\ pool'[r].cancel_event

\* C11: cancelling sets the cancellation flag of the Active job's runnable
\* and nothing else: the queue, its order, which job is Active and the two
\* result lists stay as they are; with no Active job, cancelling changes
\* nothing at all.
C11_CancelOnlySetsFlag ==
    [][/\ SetsCancelFlag =>
            /\ current_download # NoDownload
            /\ pool' = [pool EXCEPT ![current_download].cancel_event = TRUE]
            /\ UNCHANGED <<download_queue, current_download, RunSummary,
                           events, controls_enabled, summary_open, next_id>>
       /\ cancel_download =>
            /\ UNCHANGED <<download_queue, current_download, RunSummary>>
            /\ DOMAIN pool' = DOMAIN pool
            /\ \A r \in DOMAIN pool :
                   pool' [r] = [pool[r] EXCEPT !.cancel_event = pool'[r].cancel_event]
       /\ (cancel_download /\ current_download = NoDownload) => UNCHANGED vars]_vars

\* the Active job is flagged as cancelled, still first of a queue of two
C11_Witness ==
    /\ current_download # NoDownload
    /\ pool[current_download].cancel_event
    /\ pool[current_download].pc = "running"
    /\ Len(download_queue) = 2
    /\ download_queue[1].id = pool[current_download].job

\* C12: start_downloads dispatches only when no job is Active: with an Active
\* job it changes nothing (no second runnable; queue, Active job and result
\* lists as before), with an empty queue it dispatches nothing, and otherwise
\* it dispatches the head of the queue.
C12_StartOnlyWhenIdle ==
    [][start_downloads =>
         IF current_download # NoDownload \/ download_queue = <<>>
         THEN UNCHANGED vars
         ELSE /\ DOMAIN pool' = {current_download'}
              /\ pool'[current_download'].job = download_queue[1].id
              /\ pool'[current_download'].pc = "running"
              /\ UNCHANGED <<download_queue, RunSummary, events>>]_vars

\* a job is Active, its runnable the only one, with two more jobs behind it
C12_Witness ==
    /\ current_download # NoDownload
    /\ DOMAIN pool = {current_download}
    /\ ~controls_enabled
    /\ Len(download_queue) = 3
    /\ download_queue[1].id = pool[current_download].job

NoOutcomes == <<<<>>, <<>>>>

\* C14: a terminal event that leaves the queue empty ends the run: no job is
\* Active and the summary is shown when an outcome was recorded; the result
\* lists only change by the recording of one outcome while no summary is
\* shown, or by being emptied when the shown summary is closed, so every
\* recorded outcome is in exactly one shown summary; whenever no job is
\* Active and no summary is shown, both lists are empty.
C14_SummaryThenCleared ==
    /\ [][(on_download_finished /\ download_queue' = <<>>) =>
             /\ current_download' = NoDownload
             /\ summary_open' = (RunSummary' # NoOutcomes)]_vars
    /\ [][RunSummary' # RunSummary =>
             \/ /\ ~summary_open
                /\ on_download_finished
                /\ Len(successful_downloads') + Len(failed_downloads')
                     = Len(successful_downloads) + Len(failed_downloads) + 1
             \/ /\ summary_open
                /\ ~summary_open'
                /\ RunSummary' = NoOutcomes]_vars
    /\ [](summary_open => /\ current_download = NoDownload
                          /\ RunSummary # NoOutcomes)
    /\ []((current_download = NoDownload /\ ~summary_open) =>
             RunSummary = NoOutcomes)

\* the summary of a run with a success and a failure is on the screen
C14_Witness ==
    /\ summary_open
    /\ download_queue = <<>>
    /\ Len(successful_downloads) = 1
    /\ Len(failed_downloads) = 1

\* the positions of the finished signals of runnable r in the signal queue
FinishedOf(r) ==
    {i \in DOMAIN events : events[i].sig = "finished" /\ events[i].rid = r}

\* C15: a run emits finished exactly once, on every path (return, raise,
\* cancel), and it is the last signal of the run: a runnable that has ended
\* has exactly one finished signal under way and one that has not has none,
\* no signal of a runnable follows its finished signal, and every signal
\* under way belongs to a runnable the coordinator has not yet handled.
C15_OneTerminalEvent ==
    /\ \A r \in DOMAIN pool :
           Cardinality(FinishedOf(r)) = IF pool[r].pc = "done" THEN 1 ELSE 0
    /\ \A i \in DOMAIN events :
           /\ events[i].rid \in DOMAIN pool
           /\ events[i].sig = "finished" =>
                  \A j \in DOMAIN events : j > i => events[j].rid # events[i].rid

\* a progress signal and then the finished signal of the same run are under
\* way to the coordinator
C15_Witness ==
    /\ Len(events) = 2
    /\ events[1].sig = "progress"
    /\ events[2].sig = "finished"
    /\ events[2].rid = events[1].rid
    /\ pool[events[2].rid].pc = "done"

\* the submissions whose stripped text the classifier rejects
RejectedInputs == {a \in AddInputs : ~is_valid_video_url(strip(a[1])).ok}

\* the stripped texts of the submissions that the classifier accepts without
\* an error
AcceptedTexts ==
    {u \in {strip(a[1]) : a \in AddInputs} :
        is_valid_video_url(u).ok /\ is_valid_video_url(u).error = ""}

\* C18: a submission whose stripped text the classifier rejects (empty, bad
\* scheme, malformed for a named service, unsupported service) creates no
\* job and changes neither the queue, the Active job nor the result lists;
\* in every reachable state every job of the queue has a URL the classifier
\* accepts.
C18_RejectedCreatesNoJob ==
    /\ [][\A a \in RejectedInputs :
             add_to_queue(a[1], a[2], a[3]) => UNCHANGED vars]_vars
    /\ [](\A i \in DOMAIN download_queue :
             download_queue[i].url \in AcceptedTexts)

\* two accepted jobs are in the queue, the first one submitted with leading
\* whitespace that was stripped
C18_Witness ==
    /\ Len(download_queue) = 2
    /\ download_queue[1].url = UrlYouTube
    /\ download_queue[2].url = UrlOk
    /\ next_id = 3

\* the progress signals under way that carry a percentage
Determinate ==
    {i \in DOMAIN events :
        events[i].sig = "progress" /\ events[i].percent # Indeterminate}

\* C16 (as claimed): every determinate progress event of a run has a
\* percentage in [0, 100], and successive determinate percentages of a run
\* do not decrease.
C16_PercentInRangeAndMonotone ==
    \A i \in Determinate :
        /\ events[i].percent >= 0
        /\ events[i].percent <= 100 * PercentScale
        /\ \A j \in Determinate :
               (i < j /\ events[i].rid = events[j].rid)
                   => events[i].percent <= events[j].percent

\* neither total_bytes nor total_bytes_estimate is a non-zero count
TotalUnknown(d) == d.total_bytes = 0 /\ d.total_bytes_estimate = 0

IsResolution(x) == x \in {ResolutionText(720), ResolutionText(360), ResolutionText(1080)}

\* C19 (as claimed): in every reachable state every Video job of the queue
\* carries a resolution of the form <n>p and every Audio job carries none,
\* whatever the state of the resolution selector (no probe yet, probe in
\* flight, probe completed).
C19_VideoHasResolution ==
    \A i \in DOMAIN download_queue :
        /\ download_queue[i].mode = "video" => IsResolution(download_queue[i].resolution)
        /\ download_queue[i].mode = "audio" => download_queue[i].resolution = NoneVal

\* the items on_resolutions_found / on_resolutions_error show for a signal
Offered(signal) ==
    IF signal.sig = "resolutions_found" THEN signal.resolutions ELSE <<"720p">>

\* every worker created has completed and no signal of a worker is queued
ProbesCompleted ==
    /\ pending_probe = NoProbe
    /\ events = <<>>
    /\ \A w \in DOMAIN resolution_workers :
           resolution_workers[w].pc \in {"delivered", "discarded"}

\* C20 (as claimed): last probe wins: once every probe requested has
\* completed, the choices offered are those of the probe requested last, in
\* whatever order the probes completed.
C20_LastProbeWins ==
    (Len(resolution_workers) >= 2 /\ ProbesCompleted) =>
        resolution_combo.items =
            Offered(resolution_workers[Len(resolution_workers)].emitted)

\* C21 (as claimed): every url that does not start with http:// or https://,
\* the empty string included, is rejected with UnsupportedScheme.
C21_NoSchemeIsUnsupportedScheme ==
    (classified # NotClassified
        /\ (classified.url = <<>> \/ classified.url[1] \notin {"http://", "https://"}))
    => (~classified.ok /\ classified.error = "UnsupportedScheme")

\* C21: every non-empty url that does not start with http:// or https:// is
\* rejected with UnsupportedScheme.
C21_NonEmptyNoSchemeIsUnsupportedScheme ==
    (classified # NotClassified
        /\ classified.url # <<>>
        /\ classified.url[1] \notin {"http://", "https://"})
    => (~classified.ok /\ classified.error = "UnsupportedScheme")

\* a YouTube url with the scheme ftp:// was rejected for its scheme
C21_Witness ==
    /\ classified.url = UrlFtp
    /\ classified.error = "UnsupportedScheme"
    /\ ~classified.ok

\* C22: a text that is empty or consists of whitespace only is rejected with
\* EmptyInput (not with the error of the scheme check, which such a text
\* would fail too).
C22_BlankIsEmptyInput ==
    (classified # NotClassified
        /\ \A i \in DOMAIN classified.text : classified.text[i] = Space)
    => (~classified.ok /\ classified.error = "EmptyInput")

\* a text of two whitespace characters was rejected as empty
C22_Witness ==
    /\ classified.text = UrlBlank
    /\ classified.error = "EmptyInput"

\* C23 (as claimed): the service name attached to an accepted url is the
\* service whose pattern matched it, also when the query string names the
\* host of another service.
C23_ServiceNameIsMatchedService ==
    (classified # NotClassified /\ classified.ok)
        => classified.name = classified.service

\* C24: one run of a ResolutionWorker emits exactly one signal, either
\* resolutions_found or error_occurred: a worker that has not ended has
\* emitted nothing, a worker that has ended has emitted one of the two, and
\* at most that one signal of it is queued.
C24_OneProbeSignal ==
    \A w \in DOMAIN resolution_workers :
        LET worker == resolution_workers[w]
            queued == SignalsOf(w)
        IN  IF worker.pc \in {"running", "aborted"}
            THEN worker.emitted = NoSignal /\ queued = {}
            ELSE /\ worker.emitted.sig \in {"resolutions_found", "error_occurred"}
                 /\ worker.emitted.rid = w
                 /\ IF worker.pc = "emitted"
                    THEN /\ Cardinality(queued) = 1
                         /\ \A i \in queued : events[i] = worker.emitted
                    ELSE queued = {}

\* of two probes, one has emitted a list and the other the error; both
\* signals are queued
C24_Witness ==
    /\ Len(resolution_workers) = 2
    /\ resolution_workers[1].pc = "emitted"
    /\ resolution_workers[2].pc = "emitted"
    /\ resolution_workers[1].emitted.sig = "error_occurred"
    /\ resolution_workers[2].emitted.sig = "resolutions_found"
    /\ Len(events) = 2

\* the heights of the formats with a video track and a usable height
VideoHeights(formats) ==
    {formats[i].height :
        i \in {k \in DOMAIN formats :
                  formats[k].vcodec # "none" /\ formats[k].height # 0}}

\* the workers that have emitted resolutions_found
FoundWorkers ==
    {w \in DOMAIN resolution_workers :
        resolution_workers[w].emitted.sig = "resolutions_found"}

C26_FallbackNeverEmpty ==
    \A w \in FoundWorkers :
        /\ resolution_workers[w].emitted.resolutions # <<>>
        /\ VideoHeights(resolution_workers[w].formats) = {} =>
               resolution_workers[w].emitted.resolutions = <<"720p">>

\* an answer whose only format with a height has no video track gave 720
C26_Witness ==
    /\ Len(resolution_workers) = 1
    /\ resolution_workers[1].formats = <<Format(0, "avc1"), Format(1080, "none")>>
    /\ resolution_workers[1].emitted.resolutions = <<"720p">>
    /\ resolution_combo.items = <<"720p">>

\* the step delivers the signal of worker w
Delivered(w) ==
    /\ w \in DOMAIN resolution_workers
    /\ resolution_workers[w].pc = "emitted"
    /\ resolution_workers'[w].pc = "delivered"

\* C27: the delivery of a probe outcome (a list or the error) leaves the
\* queue, the Active job, its runnable with the cancellation flag and the
\* result lists unchanged, whether a job is queued, Active, cancelled, ended
\* or the summary is shown; after the delivery of the error the combo offers
\* exactly the default 720p.
C27_ProbeLeavesFlowAlone ==
    [][\A w \in DOMAIN resolution_workers :
          Delivered(w) =>
             /\ UNCHANGED <<download_queue, current_download, pool, RunSummary,
                            controls_enabled, summary_open>>
             /\ resolution_workers[w].emitted.sig = "error_occurred" =>
                    /\ resolution_combo'.items = <<"720p">>
                    /\ currentText(resolution_combo') = "720p"]_vars

\* the error of a probe was delivered while the Active job was flagged as
\* cancelled, and the combo offers 720p
C27_Witness ==
    /\ Len(resolution_workers) = 1
    /\ resolution_workers[1].pc = "delivered"
    /\ resolution_workers[1].emitted.sig = "error_occurred"
    /\ resolution_combo.items = <<"720p">>
    /\ current_download # NoDownload
    /\ pool[current_download].cancel_event
    /\ download_queue # <<>>

\* C28: the cancellation flag belongs to one runnable and is written once:
\* a flag that is set stays set as long as the runnable exists, a flag
\* becomes set only by cancel_download and only on the Active runnable, and
\* every newly dispatched runnable starts with its flag unset, so neither a
\* cancelled job nor a cancel without an Active job reaches the next job.
C28_CancelFlagWriteOnce ==
    [][\A r \in DOMAIN pool' :
          IF r \in DOMAIN pool /\ pool[r].job = pool'[r].job
          THEN /\ pool[r].cancel_event => pool'[r].cancel_event
               /\ (~pool[r].cancel_event /\ pool'[r].cancel_event) =>
                      (cancel_download /\ r = current_download)
          ELSE ~pool'[r].cancel_event]_vars

\* the first job was cancelled and recorded as failed; the second job is
\* Active with its flag unset
C28_Witness ==
    /\ Len(failed_downloads) = 1
    /\ failed_downloads[1].message.raw = CancelledByUserError.text
    /\ current_download # NoDownload
    /\ pool[current_download].job = 2
    /\ ~pool[current_download].cancel_event

\* the summary entries that a step appends to list l
Appended(l, m) == SubSeq(m, Len(l) + 1, Len(m))

\* C29: every outcome that on_download_finished records carries the URL of
\* the runnable that emitted the finished signal being handled, and the
\* entries recorded before are kept as they were, whatever was added to,
\* removed from or cleared from the queue and whether or not the job was
\* cancelled while it ran.
C29_OutcomeUnderEmittersUrl ==
    [][on_download_finished =>
          /\ Len(successful_downloads') >= Len(successful_downloads)
          /\ Len(failed_downloads') >= Len(failed_downloads)
          /\ SubSeq(successful_downloads', 1, Len(successful_downloads))
                 = successful_downloads
          /\ SubSeq(failed_downloads', 1, Len(failed_downloads))
                 = failed_downloads
          /\ \A i \in DOMAIN Appended(successful_downloads, successful_downloads') :
                 Appended(successful_downloads, successful_downloads')[i].url
                     = Finishing.url
          /\ \A i \in DOMAIN Appended(failed_downloads, failed_downloads') :
                 Appended(failed_downloads, failed_downloads')[i].url
                     = Finishing.url]_vars

\* the first job's failure is the only outcome recorded, under its own URL,
\* while the third job, of another URL, is Active: the entry of the second
\* job left the queue without having run
C29_Witness ==
    /\ successful_downloads = <<>>
    /\ Len(failed_downloads) = 1
    /\ failed_downloads[1].url = UrlYouTube
    /\ current_download # NoDownload
    /\ pool[current_download].job = 3
    /\ pool[current_download].url # UrlYouTube

\* the categories in the order of their precedence
Precedence ==
    <<"NotFound", "Forbidden", "AgeRestricted", "ConnectivityError",
      "CopyrightBlocked">>

\* the pieces of an error text that put it into category cat
Triggers(cat) ==
    CASE cat = "NotFound" -> {"HTTP Error 404"}
      [] cat = "Forbidden" -> {"HTTP Error 403"}
      [] cat = "AgeRestricted" -> {"Sign in to confirm your age", "age-restricted"}
      [] cat = "ConnectivityError" -> {"SSL", "Podklyucheni", "Connect", "connect"}
      [] cat = "CopyrightBlocked" ->
             {"Copyright", "copyright", "copyright infringement"}

\* the places in Precedence of the categories error has a trigger of
CategoriesOf(error) ==
    {i \in DOMAIN Precedence : Triggers(Precedence[i]) \cap error.has # {}}

\* the category of the highest precedence, or Generic with the text itself
Classified(error) ==
    IF CategoriesOf(error) = {} THEN Message("Generic", error.text)
    ELSE Message(Precedence[MinOf(CategoriesOf(error))], "")

\* C30: whatever text the engine's exception has, run emits one finished
\* signal with success False whose message is the category of the highest
\* precedence among NotFound, Forbidden, AgeRestricted, ConnectivityError and
\* CopyrightBlocked that the text has a trigger of, and Generic carrying the
\* text itself when it has none; the job is then recorded as failed with that
\* message.
C30_ClassifiedByPrecedence ==
    [][/\ \A r \in DOMAIN pool, error \in ErrorTexts :
              run_exception(r, error) =>
                  events' = Append(events,
                      FinishedSignal(r, FALSE, Classified(error), ""))
       /\ (on_download_finished /\ Finishing.ended = "raised") =>
              /\ ~Head(events).success
              /\ Len(failed_downloads') = Len(failed_downloads) + 1
              /\ failed_downloads'[Len(failed_downloads')].message
                     = Head(events).message
              /\ successful_downloads' = successful_downloads]_vars

\* a job was recorded as failed with the category of the lowest precedence
C30_Witness ==
    /\ Len(failed_downloads) = 1
    /\ failed_downloads[1].message = Message("CopyrightBlocked", "")
    /\ summary_open

\* the rows of queue_list that show the marker
MarkedRows == {i \in DOMAIN queue_list : queue_list[i].prefix = ActiveMarker}

\* the rows of the entry the Active job was created from
ActiveRows ==
    {i \in DOMAIN download_queue : download_queue[i].id \in ActiveEntry}

\* C31 (as claimed): in the rows that update_queue_display produced, the
\* marker is on exactly the row of the entry the Active job was created
\* from: on exactly one row while a job is Active and on no row otherwise,
\* also when several entries have the same url, mode and resolution.
C31_MarkerOnActiveEntryOnly ==
    /\ MarkedRows = ActiveRows
    /\ Cardinality(MarkedRows) = (IF current_download # NoDownload THEN 1 ELSE 0)

====
